---- MODULE Spec2Model ----
(***************************************************************************)
(* A model of hw1/roll_percolation.py (PercolationSimulation) and          *)
(* hw1/roll_sandpile.py (AbelianSandpile).                                 *)
(*                                                                         *)
(* numpy arrays are objects: `heap` maps a reference to the array it       *)
(* holds, an attribute such as self.grid holds a reference, an indexed     *)
(* assignment changes the array in place, and np.copy / ndarray.copy       *)
(* allocate a new array.  Coordinates are 0-based, as in the source.       *)
(***************************************************************************)
EXTENDS Integers, Sequences, FiniteSets, TLC

\* Bounds of the model.
MaxN == 3
MaxCalls == 2
MaxSteps == 2
MaxArg == 2
MaxDim == 3
MaxCells == 6

VARIABLES
    n,                \* self.n
    heap,             \* reference -> array (a function from <<row, col>> to a value)
    self_grid,        \* PercolationSimulation.grid: a reference
    self_grid_filled, \* PercolationSimulation.grid_filled: a reference
    ppc,              \* where percolate() stands: "ready", "loop", "flow"
    cind,             \* the loop variable of percolate()
    stack,            \* the active _flow_recursive calls, innermost last
    returned,         \* the values the completed percolate() calls returned
    grid0,            \* history variable: the value of self.grid when __init__ ended
    visits,           \* history variable: _flow_recursive calls per site in the running percolate(), counted up to 2
    fills,            \* history variable: writes of the running percolate() that changed a site from 1 to 2
    maxdepth,         \* history variable: the deepest nesting of _flow_recursive in the running percolate()
    sand_grid,        \* AbelianSandpile.grid: a reference
    history,          \* AbelianSandpile.history: a list of references
    spc,              \* where simulate()/step() stand: "idle", "loop", "while", "for", "done"
    n_step,           \* the argument of simulate()
    ii,               \* the loop variable of simulate(): the steps completed
    sand_drop,        \* step(): the site the grain is dropped on
    ind_store,        \* step(): the worklist
    pos,              \* step(): how many entries the running `for` has taken
    start_len,        \* step(): the length of ind_store when the pass began
    passes,           \* history variable: `for` passes begun in the running step, counted up to 3
    topples,          \* history variable: the sites toppled in the running step, in order
    before,           \* history variable: the grid when the running step was called
    alt,              \* the grid of the running step, relaxed in an order of its own
    snaps,            \* history variable: the grid at construction and at each return of step()
    rng_pos,          \* numpy's global generator: the sites drawn since it was last seeded
    stream,           \* the sites the generator yields after the seed and the grid draw, as far as known
    seed_grid,        \* the grid the generator yields right after the seed
    eng,              \* two AbelianSandpile objects: phase, grid and history of each
    k_steps,          \* the argument both simulate() calls are given
    call,             \* the constructor or utility call followed: its name and arguments
    outcome,          \* how that call ended: "none" while there is none, "raised", "engine", "returned"
    result            \* the value that call returned, if it returned one

pvars == <<self_grid, self_grid_filled, ppc, cind, stack, returned, grid0,
           visits, fills, maxdepth>>
svars == <<sand_grid, history, spc, n_step, ii, sand_drop, ind_store, pos, start_len,
           passes, topples, before, alt, snaps>>
rvars == <<rng_pos, stream, seed_grid, eng, k_steps>>
xvars == <<call, outcome, result>>
vars == <<n, heap, pvars, svars, xvars, rvars, xvars>>

Cells(m) == (0 .. m - 1) \X (0 .. m - 1)

\* No AbelianSandpile has been constructed.
NoSandpile ==
    /\ sand_grid = 0
    /\ history = <<>>
    /\ spc = "none"
    /\ n_step = 0
    /\ ii = 0
    /\ sand_drop = <<0, 0>>
    /\ ind_store = <<>>
    /\ pos = 0
    /\ start_len = 0
    /\ passes = 0
    /\ topples = <<>>
    /\ before = <<>>
    /\ alt = <<>>
    /\ snaps = <<>>

\* No pair of sandpiles is run.
NoPair ==
    /\ rng_pos = 0
    /\ stream = <<>>
    /\ seed_grid = <<>>
    /\ eng = <<>>
    /\ k_steps = 0

\* No constructor or utility call is followed.
NoCall ==
    /\ call = [op |-> "none", args |-> <<>>]
    /\ outcome = "none"
    /\ result = 0

\* No PercolationSimulation has been constructed.
NoPercolation ==
    /\ self_grid = 0
    /\ self_grid_filled = 0
    /\ ppc = "none"
    /\ cind = 0
    /\ stack = <<>>
    /\ returned = <<>>
    /\ grid0 = <<>>
    /\ visits = <<>>
    /\ fills = 0
    /\ maxdepth = 0

----------------------------------------------------------------------------
(* PercolationSimulation *)

\* (mutant) grid_filled = self.grid: the same array under a second name.
NpAlias(h, ref) == [heap |-> h, ref |-> ref]

\* np.copy(a): a new array with the same contents.
NpCopy(h, ref) == [heap |-> Append(h, h[ref]), ref |-> Len(h) + 1]

\* (mutant) `+= 1` in place of `= 2`.
FillIncrement(old) == old + 1

\* The value written to a site that water reaches.
FillValue(old) == 2

\* (mutant) water never moves up: the Up test is dropped.
PollNoUp(gf, m, i, j) ==
    << j # 0 /\ gf[<<i, j - 1>>] = 1,
       j # m - 1 /\ gf[<<i, j + 1>>] = 1,
       FALSE,
       i # m - 1 /\ gf[<<i + 1, j>>] = 1 >>

\* (mutant) a neighbour counts as open when it is not yet filled (`!= 2`).
PollNotFilled(gf, m, i, j) ==
    << j # 0 /\ gf[<<i, j - 1>>] # 2,
       j # m - 1 /\ gf[<<i, j + 1>>] # 2,
       i # 0 /\ gf[<<i - 1, j>>] # 2,
       i # m - 1 /\ gf[<<i + 1, j>>] # 2 >>

\* _poll_neighbors(i, j): <<Left, Right, Up, Down>>, each TRUE iff the neighbour
\* is inside the lattice and holds 1 in grid_filled.
PollNeighbors(gf, m, i, j) ==
    << j # 0 /\ gf[<<i, j - 1>>] = 1,
       j # m - 1 /\ gf[<<i, j + 1>>] = 1,
       i # 0 /\ gf[<<i - 1, j>>] = 1,
       i # m - 1 /\ gf[<<i + 1, j>>] = 1 >>

\* The site _flow_recursive(i, j) writes and enters for direction k.
Target(i, j, k) ==
    CASE k = 1 -> <<i, j - 1>>
      [] k = 2 -> <<i, j + 1>>
      [] k = 3 -> <<i - 1, j>>
      [] k = 4 -> <<i + 1, j>>

\* The array that `ref` holds after the assignment a[cell] = FillValue.
WriteFilled(h, ref, cell) == [h EXCEPT ![ref][cell] = FillValue(h[ref][cell])]

\* The frame of a call _flow_recursive(i, j): its arguments, the list
\* `movement` it computed on entry, and the next `if` it will execute.
Frame(h, ref, m, i, j) ==
    [i |-> i, j |-> j, movement |-> PollNeighbors(h[ref], m, i, j), k |-> 1]

\* 2 in self.grid_filled[-1]
LastRowHas2(gf, m) == \E c \in 0 .. m - 1 : gf[<<m - 1, c>>] = 2

\* __init__ with a caller-supplied 0/1 grid: grid_filled = np.copy(self.grid).
InitPercolation ==
    /\ n \in 1 .. MaxN
    /\ \E g \in [Cells(n) -> {0, 1}] :
          LET c == NpCopy(<<g>>, 1) IN
             /\ heap = c.heap
             /\ self_grid = 1
             /\ self_grid_filled = c.ref
             /\ grid0 = g
    /\ ppc = "ready"
    /\ cind = 0
    /\ stack = <<>>
    /\ returned = <<>>
    /\ visits = [c \in Cells(n) |-> 0]
    /\ fills = 0
    /\ maxdepth = 0
    /\ NoSandpile
    /\ NoPair
    /\ NoCall

\* The history variables when a site is written and _flow_recursive is
\* entered for it at nesting depth d.
Entered(cell, d) ==
    /\ visits' = [visits EXCEPT ![cell] = IF @ < 2 THEN @ + 1 ELSE @]
    /\ fills' = IF heap[self_grid_filled][cell] = 1 THEN fills + 1 ELSE fills
    /\ maxdepth' = IF d > maxdepth THEN d ELSE maxdepth

\* A call of percolate() begins.
PercolateCall ==
    /\ ppc = "ready"
    /\ Len(returned) < MaxCalls
    /\ ppc' = "loop"
    /\ cind' = 0
    /\ visits' = [c \in Cells(n) |-> 0]
    /\ fills' = 0
    /\ maxdepth' = 0
    /\ UNCHANGED <<n, heap, self_grid, self_grid_filled, stack, returned, grid0, svars, rvars, xvars>>

\* One iteration of `for cind in range(self.n)`, up to the call it makes.
SeedColumn ==
    /\ ppc = "loop"
    /\ cind < n
    /\ IF heap[self_grid][<<0, cind>>] = 1
          THEN LET h == WriteFilled(heap, self_grid_filled, <<0, cind>>) IN
               /\ heap' = h
               /\ stack' = <<Frame(h, self_grid_filled, n, 0, cind)>>
               /\ ppc' = "flow"
               /\ cind' = cind
               /\ Entered(<<0, cind>>, 1)
          ELSE /\ cind' = cind + 1
               /\ UNCHANGED <<heap, stack, ppc, visits, fills, maxdepth>>
    /\ UNCHANGED <<n, self_grid, self_grid_filled, returned, grid0, svars, rvars, xvars>>

\* One `if movement[k] == True:` of the innermost _flow_recursive call.
FlowDirection ==
    /\ ppc = "flow"
    /\ stack # <<>>
    /\ LET d == Len(stack)
           f == stack[d]
       IN /\ f.k <= 4
          /\ IF f.movement[f.k]
                THEN LET t == Target(f.i, f.j, f.k)
                         h == WriteFilled(heap, self_grid_filled, t)
                     IN /\ heap' = h
                        /\ stack' = Append([stack EXCEPT ![d].k = f.k + 1],
                                           Frame(h, self_grid_filled, n, t[1], t[2]))
                        /\ Entered(t, d + 1)
                ELSE /\ stack' = [stack EXCEPT ![d].k = f.k + 1]
                     /\ UNCHANGED <<heap, visits, fills, maxdepth>>
    /\ UNCHANGED <<n, self_grid, self_grid_filled, ppc, cind, returned, grid0, svars, rvars, xvars>>

\* (mutant) the loop of percolate() written with `while` and no `cind += 1`
\* after the call: the seed's _flow_recursive returns to the same column.
FlowReturnSameColumn ==
    /\ ppc = "flow"
    /\ stack # <<>>
    /\ stack[Len(stack)].k = 5
    /\ stack' = SubSeq(stack, 1, Len(stack) - 1)
    /\ IF Len(stack) = 1
          THEN ppc' = "loop" /\ cind' = cind
          ELSE UNCHANGED <<ppc, cind>>
    /\ UNCHANGED <<n, heap, self_grid, self_grid_filled, returned, grid0, visits, fills,
                   maxdepth, svars, rvars, xvars>>

\* The innermost _flow_recursive call returns.
FlowReturn ==
    /\ ppc = "flow"
    /\ stack # <<>>
    /\ stack[Len(stack)].k = 5
    /\ stack' = SubSeq(stack, 1, Len(stack) - 1)
    /\ IF Len(stack) = 1
          THEN ppc' = "loop" /\ cind' = cind + 1
          ELSE UNCHANGED <<ppc, cind>>
    /\ UNCHANGED <<n, heap, self_grid, self_grid_filled, returned, grid0, visits, fills,
                   maxdepth, svars, rvars, xvars>>

\* return 2 in self.grid_filled[-1]: the lattice has a last row.
PercolateReturn ==
    /\ ppc = "loop"
    /\ cind = n
    /\ n >= 1
    /\ returned' = Append(returned, LastRowHas2(heap[self_grid_filled], n))
    /\ ppc' = "ready"
    /\ UNCHANGED <<n, heap, self_grid, self_grid_filled, cind, stack, grid0, visits, fills,
                   maxdepth, svars, rvars, xvars>>

Next == PercolateCall \/ SeedColumn \/ FlowDirection \/ FlowReturn \/ PercolateReturn

Spec == InitPercolation /\ [][Next]_vars

\* percolate() runs to completion: nothing suspends or blocks it.
FairSpec == Spec /\ WF_vars(Next)

----------------------------------------------------------------------------
(* AbelianSandpile *)

\* (mutant) history.append(self.grid): the live array, not a copy of it.
ArrayAlias(h, ref) == [heap |-> h, ref |-> ref]

\* self.grid.copy(): a new array with the same contents.
ArrayCopy(h, ref) == [heap |-> Append(h, h[ref]), ref |-> Len(h) + 1]

\* (mutant) `<= 4` in place of `< 4`.
NoAvalancheOffByOne(v) == v <= 4

\* `if self.grid[rind][cind] < 4: continue`
NoAvalanche(v) == v < 4

\* (mutant) the lower and right boundary tests compare with n in place of n-1,
\* so a grain toward the missing neighbour lands on the opposite edge
\* (what an index of n modulo n would give).
NeighborsWrap(m, rind, c) ==
    (IF rind # 0 THEN << <<rind - 1, c>> >> ELSE <<>>) \o
    << <<(rind + 1) % m, c>> >> \o
    (IF c # 0 THEN << <<rind, c - 1>> >> ELSE <<>>) \o
    << <<rind, (c + 1) % m>> >>

\* The neighbours an avalanche at (rind, c) feeds, in the order of the four
\* boundary tests: up, down, left, right.
Neighbors(m, rind, c) ==
    (IF rind # 0 THEN << <<rind - 1, c>> >> ELSE <<>>) \o
    (IF rind # m - 1 THEN << <<rind + 1, c>> >> ELSE <<>>) \o
    (IF c # 0 THEN << <<rind, c - 1>> >> ELSE <<>>) \o
    (IF c # m - 1 THEN << <<rind, c + 1>> >> ELSE <<>>)

\* g after `+= 1` on each site of the list, in order.
RECURSIVE AddOne(_, _)
AddOne(g, sites) ==
    IF sites = <<>> THEN g
    ELSE AddOne([g EXCEPT ![Head(sites)] = @ + 1], Tail(sites))

\* (mutant) the toppled site is emptied (`= 0`) in place of `-= 4`.
AvalancheEmpties(g, m, rind, c) ==
    AddOne([g EXCEPT ![<<rind, c>>] = 0], Neighbors(m, rind, c))

\* (mutant) the avalanche moves 3 grains off the site in place of 4.
AvalancheThree(g, m, rind, c) ==
    AddOne([g EXCEPT ![<<rind, c>>] = @ - 3], Neighbors(m, rind, c))

\* The avalanche at (rind, c): `-= 4` there, `+= 1` on each neighbour.
Avalanche(g, m, rind, c) ==
    AddOne([g EXCEPT ![<<rind, c>>] = @ - 4], Neighbors(m, rind, c))

\* The grids of __init__ that the model starts from; np.random.choice can
\* draw any grid of 0..3.  Up to 2 x 2 these are all of them; at 3 x 3 the
\* grids of empty (0) and critical (3) sites; above, those of them in which at
\* most one site differs from the rest.
InitialGrids(m) ==
    IF m <= 2 THEN [Cells(m) -> 0 .. 3]
    ELSE IF m = 3 THEN [Cells(m) -> {0, 3}]
    ELSE {g \in [Cells(m) -> {0, 3}] :
             \E v \in {0, 3} : Cardinality({c \in Cells(m) : g[c] # v}) <= 1}

\* __init__: self.grid is drawn, history = [self.grid.copy()].
InitSandpile ==
    /\ n \in 1 .. MaxN
    /\ \E g \in InitialGrids(n) :
          LET c == ArrayCopy(<<g>>, 1) IN
             /\ heap = c.heap
             /\ sand_grid = 1
             /\ history = <<c.ref>>
             /\ snaps = <<g>>
             /\ before = g
             /\ alt = g
    /\ spc = "idle"
    /\ n_step = 0
    /\ ii = 0
    /\ sand_drop = <<0, 0>>
    /\ ind_store = <<>>
    /\ pos = 0
    /\ start_len = 0
    /\ passes = 0
    /\ topples = <<>>
    /\ NoPercolation
    /\ NoPair
    /\ NoCall

\* simulate(n_step) is called.
SimulateCall ==
    /\ spc = "idle"
    /\ \E k \in 0 .. MaxSteps : n_step' = k
    /\ ii' = 0
    /\ spc' = "loop"
    /\ UNCHANGED <<n, heap, pvars, rvars, xvars, sand_grid, history, sand_drop, ind_store, pos,
                   start_len, passes, topples, before, alt, snaps>>

\* step() is called: the site is drawn, the grain added, the worklist seeded.
StepCall ==
    /\ spc = "loop"
    /\ ii < n_step
    /\ \E site \in Cells(n) :
          /\ sand_drop' = site
          /\ heap' = [heap EXCEPT ![sand_grid][site] = @ + 1]
          /\ ind_store' = <<site>>
          /\ alt' = [heap[sand_grid] EXCEPT ![site] = @ + 1]
    /\ before' = heap[sand_grid]
    /\ passes' = 0
    /\ topples' = <<>>
    /\ spc' = "while"
    /\ UNCHANGED <<n, pvars, rvars, xvars, sand_grid, history, n_step, ii, pos, start_len, snaps>>

\* The top of `while True:` with a worklist that is not empty: a pass begins.
WhilePass ==
    /\ spc = "while"
    /\ Len(ind_store) # 0
    /\ start_len' = Len(ind_store)
    /\ pos' = 0
    /\ passes' = IF passes < 3 THEN passes + 1 ELSE passes
    /\ spc' = "for"
    /\ UNCHANGED <<n, heap, pvars, rvars, xvars, sand_grid, history, n_step, ii, sand_drop,
                   ind_store, topples, before, alt, snaps>>

\* The top of `while True:` with an empty worklist: break, step() returns and
\* simulate() appends a copy of the grid to history.
StepReturn ==
    /\ spc = "while"
    /\ Len(ind_store) = 0
    /\ LET c == ArrayCopy(heap, sand_grid) IN
          /\ heap' = c.heap
          /\ history' = Append(history, c.ref)
    /\ snaps' = Append(snaps, heap[sand_grid])
    /\ start_len' = 0
    /\ ii' = ii + 1
    /\ spc' = "loop"
    /\ UNCHANGED <<n, pvars, rvars, xvars, sand_grid, n_step, sand_drop, ind_store, pos,
                   passes, topples, before, alt>>

\* (mutant) a neighbour is appended only when the worklist does not hold it yet.
AppendedOnce(store, m, rind, c) ==
    store \o SelectSeq(Neighbors(m, rind, c),
                       LAMBDA x : \A k \in 1 .. Len(store) : store[k] # x)

\* The worklist after the `ind_store.append(...)` statements of an avalanche
\* at (rind, c).
Appended(store, m, rind, c) == store \o Neighbors(m, rind, c)

\* (mutant) `for coord in ind_store[:start_len]`: the pass iterates over the
\* entries the list held when the pass began.
IterEndAtStart(store, startlen) == startlen

\* Where `for coord in ind_store:` stops: the list iterator compares its index
\* with the length the list has now.
IterEnd(store, startlen) == Len(store)

\* One iteration of `for coord in ind_store:`; the list iterator takes the
\* entry at its index, whatever the list has grown to.
ForCoord ==
    /\ spc = "for"
    /\ pos < IterEnd(ind_store, start_len)
    /\ LET coord == ind_store[pos + 1] IN
          IF NoAvalanche(heap[sand_grid][coord])
             THEN UNCHANGED <<heap, ind_store, topples>>
             ELSE /\ heap' = [heap EXCEPT
                                ![sand_grid] = Avalanche(@, n, coord[1], coord[2])]
                  /\ ind_store' = Appended(ind_store, n, coord[1], coord[2])
                  /\ topples' = Append(topples, coord)
    /\ pos' = pos + 1
    /\ UNCHANGED <<n, pvars, rvars, xvars, sand_grid, history, spc, n_step, ii, sand_drop,
                   start_len, passes, before, alt, snaps>>

\* (mutant) the pass ends without `del ind_store[:start_len]`.
ForEndKeeps ==
    /\ spc = "for"
    /\ pos = IterEnd(ind_store, start_len)
    /\ spc' = "while"
    /\ UNCHANGED <<n, heap, pvars, rvars, xvars, sand_grid, history, n_step, ii, sand_drop,
                   ind_store, pos, start_len, passes, topples, before, alt, snaps>>

\* The iterator is past the end of the list: `del ind_store[:start_len]`.
ForEnd ==
    /\ spc = "for"
    /\ pos = IterEnd(ind_store, start_len)
    /\ ind_store' = SubSeq(ind_store, start_len + 1, Len(ind_store))
    /\ spc' = "while"
    /\ UNCHANGED <<n, heap, pvars, rvars, xvars, sand_grid, history, n_step, ii, sand_drop, pos,
                   start_len, passes, topples, before, alt, snaps>>

\* simulate() returns.
SimulateReturn ==
    /\ spc = "loop"
    /\ ii = n_step
    /\ spc' = "done"
    /\ UNCHANGED <<n, heap, pvars, rvars, xvars, sand_grid, history, n_step, ii, sand_drop,
                   ind_store, pos, start_len, passes, topples, before, alt, snaps>>

SandNext ==
    SimulateCall \/ StepCall \/ WhilePass \/ ForCoord \/ ForEnd \/ StepReturn
    \/ SimulateReturn

SandSpec == InitSandpile /\ [][SandNext]_vars

\* The calls run to completion: nothing suspends or blocks them.
FairSandSpec == SandSpec /\ WF_vars(SandNext)

\* The relaxation in an arbitrary order: any site of `alt` that is due an
\* avalanche has it.
AltTopple ==
    /\ \E site \in Cells(n) :
          /\ ~NoAvalanche(alt[site])
          /\ alt' = Avalanche(alt, n, site[1], site[2])
    /\ UNCHANGED <<n, heap, pvars, rvars, xvars, sand_grid, history, spc, n_step, ii, sand_drop,
                   ind_store, pos, start_len, passes, topples, before, snaps>>

AltStable == \A site \in Cells(n) : NoAvalanche(alt[site])

\* step() as written, run after the arbitrary-order relaxation of the same
\* perturbed grid has come to rest.
OrderNext == AltTopple \/ (AltStable /\ SandNext)

OrderSpec == InitSandpile /\ [][OrderNext]_vars

----------------------------------------------------------------------------
(* Two AbelianSandpile objects and numpy's global generator *)

\* One pass of `for coord in ind_store:` from index p on: the grid and the
\* worklist when the iterator runs off the end.
RECURSIVE ForPass(_, _, _, _)
ForPass(g, m, store, p) ==
    IF p >= Len(store) THEN [grid |-> g, store |-> store]
    ELSE LET coord == store[p + 1] IN
         IF NoAvalanche(g[coord])
            THEN ForPass(g, m, store, p + 1)
            ELSE ForPass(Avalanche(g, m, coord[1], coord[2]), m,
                         store \o Neighbors(m, coord[1], coord[2]), p + 1)

\* `while True:` of step(): passes until the worklist is empty.
RECURSIVE WhileLoop(_, _, _)
WhileLoop(g, m, store) ==
    IF Len(store) = 0 THEN g
    ELSE LET r == ForPass(g, m, store, 0) IN
         WhileLoop(r.grid, m, SubSeq(r.store, Len(store) + 1, Len(r.store)))

\* step() with the site drawn: the grid it leaves.
StepGrid(g, m, site) == WhileLoop([g EXCEPT ![site] = @ + 1], m, <<site>>)

\* simulate(): history after a step() for each site of the list, in order.
RECURSIVE SimulateHistory(_, _, _, _)
SimulateHistory(g, m, sites, hist) ==
    IF sites = <<>> THEN hist
    ELSE LET g2 == StepGrid(g, m, Head(sites)) IN
         SimulateHistory(g2, m, Tail(sites), Append(hist, g2))

Engines == {1, 2}

\* The grids the generator's first block is taken from in this specification.
UniformGrids(m) == {[c \in Cells(m) |-> v] : v \in 0 .. 3}

\* Before either constructor runs.  The seed both constructors are given
\* fixes what the generator yields; what it yields is left open.
InitPair ==
    /\ n \in 1 .. MaxN
    /\ seed_grid \in UniformGrids(n)
    /\ k_steps \in 1 .. MaxSteps
    /\ rng_pos = 0
    /\ stream = <<>>
    /\ eng = [e \in Engines |-> [phase |-> "none", grid |-> <<>>, history |-> <<>>]]
    /\ heap = <<>>
    /\ NoPercolation
    /\ NoSandpile
    /\ NoCall

\* AbelianSandpile(n, random_state) for engine e: np.random.seed resets the
\* global generator, the grid is its first block.
Construct(e) ==
    /\ eng[e].phase = "none"
    /\ rng_pos' = 0
    /\ eng' = [eng EXCEPT ![e] = [phase |-> "built", grid |-> seed_grid,
                                  history |-> <<seed_grid>>]]
    /\ UNCHANGED <<n, heap, pvars, svars, xvars, stream, seed_grid, k_steps>>

\* simulate(k_steps) on engine e: each step() draws its site from the global
\* generator, at the position the generator has reached.
Simulate(e) ==
    /\ eng[e].phase = "built"
    /\ \E sites \in [1 .. k_steps -> Cells(n)] :
          /\ \A j \in 1 .. k_steps :
                rng_pos + j <= Len(stream) => sites[j] = stream[rng_pos + j]
          /\ stream' = [p \in 1 .. (IF rng_pos + k_steps > Len(stream)
                                       THEN rng_pos + k_steps ELSE Len(stream)) |->
                           IF p <= Len(stream) THEN stream[p] ELSE sites[p - rng_pos]]
          /\ LET hist == SimulateHistory(eng[e].grid, n, sites, eng[e].history) IN
                eng' = [eng EXCEPT ![e] = [phase |-> "done",
                                           grid |-> hist[Len(hist)],
                                           history |-> hist]]
    /\ rng_pos' = rng_pos + k_steps
    /\ UNCHANGED <<n, heap, pvars, svars, xvars, seed_grid, k_steps>>

PairNext == \E e \in Engines : Construct(e) \/ Simulate(e)

PairSpec == InitPair /\ [][PairNext]_vars

----------------------------------------------------------------------------
(* The constructors, followed from the call on *)

\* The values of a caller-supplied grid.
GridValues == {0, 1, 2}

\* The values of p, in tenths.
PArgs == {-5, 0, 5, 10, 15}

\* The values np.random.random() returns, in tenths: the interval [0, 1).
Draws == {0, 5, 9}

\* np.unique(np.ravel(grid))
Unique(g) == {g[c] : c \in DOMAIN g}

\* No object exists and no call has been made.
InitBuild ==
    /\ n = 0
    /\ heap = <<>>
    /\ NoPercolation
    /\ NoSandpile
    /\ NoPair
    /\ NoCall

\* The end of PercolationSimulation.__init__ with self.n = m and self.grid = g:
\* grid_filled = np.copy(self.grid).
Constructed(m, g) ==
    LET c == NpCopy(<<g>>, 1) IN
       /\ n' = m
       /\ heap' = c.heap
       /\ self_grid' = 1
       /\ self_grid_filled' = c.ref
       /\ grid0' = g
       /\ ppc' = "ready"
       /\ cind' = 0
       /\ stack' = <<>>
       /\ returned' = <<>>
       /\ visits' = [x \in Cells(m) |-> 0]
       /\ fills' = 0
       /\ maxdepth' = 0

\* PercolationSimulation(n, p): np.zeros((n, n)) raises for a negative n;
\* otherwise _initialize_grid sets a site to 1 where the draw exceeds p.
PercolationInit ==
    /\ outcome = "none"
    /\ \E n_arg \in -1 .. MaxArg, p_arg \in PArgs :
          /\ call' = [op |-> "PercolationSimulation(n, p)", args |-> <<n_arg, p_arg>>]
          /\ IF n_arg < 0
                THEN /\ outcome' = "raised"
                     /\ UNCHANGED <<n, heap, pvars>>
                ELSE /\ outcome' = "engine"
                     /\ \E draws \in [Cells(n_arg) -> Draws] :
                           Constructed(n_arg, [c \in Cells(n_arg) |->
                                                  IF draws[c] > p_arg THEN 1 ELSE 0])
    /\ UNCHANGED <<svars, rvars, result>>

\* PercolationSimulation(grid=grid): the assert counts the distinct values.
PercolationInitGrid ==
    /\ outcome = "none"
    /\ \E m \in 1 .. MaxArg : \E grid \in [Cells(m) -> GridValues] :
          /\ call' = [op |-> "PercolationSimulation(grid)", args |-> <<grid>>]
          /\ IF Cardinality(Unique(grid)) <= 2
                THEN /\ outcome' = "engine"
                     /\ Constructed(m, grid)
                ELSE /\ outcome' = "raised"
                     /\ UNCHANGED <<n, heap, pvars>>
    /\ UNCHANGED <<svars, rvars, result>>

\* AbelianSandpile(n, random_state): np.random.choice raises for a negative n.
SandpileInit ==
    /\ outcome = "none"
    /\ \E n_arg \in -1 .. MaxArg :
          /\ call' = [op |-> "AbelianSandpile(n)", args |-> <<n_arg>>]
          /\ IF n_arg < 0
                THEN /\ outcome' = "raised"
                     /\ UNCHANGED <<n, heap, svars>>
                ELSE /\ outcome' = "engine"
                     /\ n' = n_arg
                     /\ \E g \in InitialGrids(n_arg) :
                           LET c == ArrayCopy(<<g>>, 1) IN
                              /\ heap' = c.heap
                              /\ sand_grid' = 1
                              /\ history' = <<c.ref>>
                              /\ snaps' = <<g>>
                              /\ before' = g
                              /\ alt' = g
                     /\ spc' = "idle"
                     /\ UNCHANGED <<n_step, ii, sand_drop, ind_store, pos, start_len,
                                    passes, topples>>
    /\ UNCHANGED <<pvars, rvars, result>>

\* percolate() on a lattice without rows: self.grid_filled[-1] raises IndexError.
PercolateIndexError ==
    /\ ppc = "loop"
    /\ cind = n
    /\ n = 0
    /\ ppc' = "raised"
    /\ UNCHANGED <<n, heap, self_grid, self_grid_filled, cind, stack, returned, grid0,
                   visits, fills, maxdepth, svars, rvars, xvars>>

BuildNext ==
    \/ PercolationInit
    \/ PercolationInitGrid
    \/ SandpileInit
    \/ PercolateIndexError
    \/ Next

BuildSpec == InitBuild /\ [][BuildNext]_vars

----------------------------------------------------------------------------
(* AbelianSandpile.check_difference *)

\* The shapes of the arrays passed: rows and columns.
Shapes == {sh \in (1 .. MaxDim) \X (1 .. MaxDim) : sh[1] * sh[2] <= MaxCells}

Index(sh) == (0 .. sh[1] - 1) \X (0 .. sh[2] - 1)

\* The arrays of a shape.
Arrays(sh) == {[shape |-> sh, at |-> a] : a \in [Index(sh) -> {0, 1}]}

\* numpy's broadcasting rule: in each dimension the sizes are equal or one is 1.
Broadcastable(s1, s2) == \A d \in 1 .. 2 : s1[d] = s2[d] \/ s1[d] = 1 \/ s2[d] = 1

\* The shape both operands are stretched to.
BroadcastShape(s1, s2) == [d \in 1 .. 2 |-> IF s1[d] > s2[d] THEN s1[d] ELSE s2[d]]

\* The element of array g that stands at index c of the stretched array.
Stretched(g, c) == g.at[<<IF g.shape[1] = 1 THEN 0 ELSE c[1], IF g.shape[2] = 1 THEN 0 ELSE c[2]>>]

\* What `np.sum(grid1 != grid2)` can do. Broadcastable shapes: the number of
\* indices of the stretched arrays where the elements differ. Other shapes:
\* `!=` raises ValueError (numpy 1.25 and later) or, with a warning, yields the
\* scalar True, whose sum is 1 (earlier numpy).
CheckDifferenceOutcomes(grid1, grid2) ==
    IF Broadcastable(grid1.shape, grid2.shape)
      THEN {[outcome |-> "returned",
             result |-> Cardinality({c \in Index(BroadcastShape(grid1.shape, grid2.shape)) :
                                       Stretched(grid1, c) # Stretched(grid2, c)})]}
      ELSE {[outcome |-> "raised", result |-> 0], [outcome |-> "returned", result |-> 1]}

\* check_difference(grid1, grid2)
CheckDifference ==
    /\ outcome = "none"
    /\ \E s1 \in Shapes, s2 \in Shapes : \E grid1 \in Arrays(s1), grid2 \in Arrays(s2) :
          /\ call' = [op |-> "check_difference", args |-> <<grid1, grid2>>]
          /\ \E o \in CheckDifferenceOutcomes(grid1, grid2) :
                /\ outcome' = o.outcome
                /\ result' = o.result
    /\ UNCHANGED <<n, heap, pvars, svars, rvars>>

DiffSpec == InitBuild /\ [][CheckDifference]_vars

----------------------------------------------------------------------------
(* Properties of percolate() *)

Adjacent(a, b) ==
    \/ a[1] = b[1] /\ (a[2] = b[2] + 1 \/ b[2] = a[2] + 1)
    \/ a[2] = b[2] /\ (a[1] = b[1] + 1 \/ b[1] = a[1] + 1)

\* The least set that holds S and every Open cell of g adjacent to a member.
RECURSIVE Closure(_, _, _)
Closure(g, m, S) ==
    LET T == S \cup {c \in Cells(m) : g[c] = 1 /\ \E d \in S : Adjacent(c, d)}
    IN IF T = S THEN S ELSE Closure(g, m, T)

\* The Open cells joined to an Open top-row cell by a path of adjacent Open cells.
Reachable(g, m) == Closure(g, m, {c \in Cells(m) : c[1] = 0 /\ g[c] = 1})

Grid == heap[self_grid]
GridFilled == heap[self_grid_filled]

C6_SecondCallIdempotent ==
    /\ [][Len(returned) >= 1 => heap'[self_grid_filled] = heap[self_grid_filled]]_vars
    /\ [](\A k \in 1 .. Len(returned) : returned[k] = returned[1])

\* C6 witness: a second call has returned on a lattice where the first call
\* filled cells and percolated.
C6_Witness ==
    /\ Len(returned) = 2
    /\ returned[2] = TRUE
    /\ n >= 2
    /\ \E c \in Cells(n) : GridFilled[c] = 2

\* C7: every cell of grid_filled is 0, 1 or 2 in every state; a step never
\* changes a cell that holds 0, and never changes a cell that holds 2 (so a
\* cell goes 1 -> 2 at most once and never back).
C7_CellTransitions ==
    /\ [](\A c \in Cells(n) : GridFilled[c] \in {0, 1, 2})
    /\ [][\A c \in Cells(n) :
            /\ GridFilled[c] = 0 => heap'[self_grid_filled][c] = 0
            /\ GridFilled[c] = 2 => heap'[self_grid_filled][c] = 2]_vars

\* C7 witness: inside nested _flow_recursive calls, the innermost call is
\* about to write a cell that an earlier call already filled, next to a
\* Blocked cell.
C7_Witness ==
    /\ ppc = "flow"
    /\ Len(stack) >= 2
    /\ LET f == stack[Len(stack)] IN
          /\ f.k <= 4
          /\ f.movement[f.k]
          /\ GridFilled[Target(f.i, f.j, f.k)] = 2
    /\ \E c \in Cells(n) : GridFilled[c] = 0

\* C8: self.grid holds, in every state during and after every percolate()
\* call, the value it had when construction ended.
C8_SourceGridReadOnly == heap[self_grid] = grid0

\* C8 witness: two calls have returned and grid_filled differs from grid.
C8_Witness ==
    /\ Len(returned) = 2
    /\ \E c \in Cells(n) : GridFilled[c] = 2 /\ Grid[c] = 1

----------------------------------------------------------------------------
(* Properties of step() and simulate() *)

SandGrid == heap[sand_grid]

\* The sum of the values of g over the cells of S.
RECURSIVE SumOver(_, _)
SumOver(g, S) ==
    IF S = {} THEN 0
    ELSE LET c == CHOOSE x \in S : TRUE IN g[c] + SumOver(g, S \ {c})

Mass(g) == SumOver(g, DOMAIN g)

\* A step() has returned and no later one has been called.
StepReturned == spc \in {"loop", "done"} /\ ii >= 1

\* The sites of the lattice next to site c, and whether c lies on the boundary.
InBounds(m, c) == {d \in Cells(m) : Adjacent(c, d)}
OnBoundary(m, c) == c[1] = 0 \/ c[1] = m - 1 \/ c[2] = 0 \/ c[2] = m - 1

\* C2: between steps (after construction and after every completed step())
\* every cell of the grid is in 0..3, and so is every cell of every snapshot
\* stored in history.
C2_StableAfterStep ==
    spc \in {"idle", "loop", "done"} =>
        /\ \A c \in Cells(n) : SandGrid[c] \in 0 .. 3
        /\ \A k \in 1 .. Len(history) : \A c \in Cells(n) : heap[history[k]][c] \in 0 .. 3

\* C2 witness: the second step of a run on a 3 x 3 grid has returned after an
\* avalanche of at least three topples that included the centre.
C2_Witness ==
    /\ n = 3
    /\ spc = "loop"
    /\ ii = 2
    /\ Len(topples) >= 3
    /\ \E k \in 1 .. Len(topples) : topples[k] = <<1, 1>>

\* C3: every step() that is called returns: from every state in which the
\* relaxation loop is running, a state is reached in which the worklist is
\* empty and step() has returned.
C3_RelaxationTerminates ==
    (spc \in {"while", "for"}) ~> (spc = "loop" /\ ind_store = <<>>)

\* C3 witness: a relaxation that toppled at least four times has emptied its
\* worklist and returned.
C3_Witness ==
    /\ spc = "loop"
    /\ ii >= 1
    /\ ind_store = <<>>
    /\ Len(topples) >= 4

\* The relaxation of the spec's section 4.3 with a worklist from which the
\* next coordinate is taken at the back (lifo) or at the front (fifo).
RECURSIVE WorklistRelax(_, _, _, _)
WorklistRelax(g, m, wl, lifo) ==
    IF wl = <<>> THEN g
    ELSE LET c == IF lifo THEN wl[Len(wl)] ELSE Head(wl)
             rest == IF lifo THEN SubSeq(wl, 1, Len(wl) - 1) ELSE Tail(wl)
         IN IF g[c] < 4
               THEN WorklistRelax(g, m, rest, lifo)
               ELSE WorklistRelax(Avalanche(g, m, c[1], c[2]), m,
                                  rest \o Neighbors(m, c[1], c[2]), lifo)

Perturbed == [before EXCEPT ![sand_drop] = @ + 1]

\* C4: when step() has returned, its grid is the grid that the relaxation of
\* the same perturbed grid reached by toppling overfull cells in any other
\* order (alt, once at rest), and the grid a FIFO worklist and a LIFO worklist
\* reach.
C4_OrderIndependent ==
    (StepReturned /\ AltStable) =>
        /\ SandGrid = alt
        /\ SandGrid = WorklistRelax(Perturbed, n, <<sand_drop>>, FALSE)
        /\ SandGrid = WorklistRelax(Perturbed, n, <<sand_drop>>, TRUE)

\* C4 witness: a step on a 3 x 3 grid has returned after an avalanche in which
\* some site toppled twice, so that several sites were overfull at once.
C4_Witness ==
    /\ n = 3
    /\ StepReturned
    /\ AltStable
    /\ \E j, k \in 1 .. Len(topples) : j < k /\ topples[j] = topples[k]

BoundaryTopples ==
    Cardinality({k \in 1 .. Len(topples) : OnBoundary(n, topples[k])})

\* The grains the topples of the running step pushed off the lattice.
RECURSIVE GrainsLost(_, _)
GrainsLost(m, ts) ==
    IF ts = <<>> THEN 0
    ELSE (4 - Cardinality(InBounds(m, Head(ts)))) + GrainsLost(m, Tail(ts))

\* C9 as stated: after a step the sum of the grid is the sum before the step
\* plus 1 minus 4 times the number of boundary topples of that step.
C9_MassMinusFourPerBoundaryTopple ==
    StepReturned => Mass(SandGrid) = Mass(before) + 1 - 4 * BoundaryTopples

\* C9 amended: after a step the sum of the grid is the sum before the step
\* plus 1 minus the number of grains pushed off the lattice, which is, for
\* each topple, 4 minus the number of in-bounds orthogonal neighbours.
C9_MassMinusGrainsLost ==
    StepReturned => Mass(SandGrid) = Mass(before) + 1 - GrainsLost(n, topples)

\* C9 witness: a step on a 3 x 3 grid has returned after topples of the
\* centre, of an edge site and of a corner.
C9_Witness ==
    /\ n = 3
    /\ StepReturned
    /\ \E k \in 1 .. Len(topples) : topples[k] = <<1, 1>>
    /\ \E k \in 1 .. Len(topples) : topples[k] = <<0, 1>>
    /\ \E k \in 1 .. Len(topples) : topples[k] = <<0, 0>>

\* C10: history[0] is the initial grid, history[i] is the grid as it was when
\* the i-th step() returned, in every later state as well, and when
\* simulate(k) has returned history has k + 1 entries.
C10_HistorySnapshots ==
    /\ Len(history) = Len(snaps)
    /\ \A k \in 1 .. Len(history) : heap[history[k]] = snaps[k]
    /\ spc \in {"idle", "loop", "done"} => Len(history) = ii + 1
    /\ spc = "done" => Len(history) = n_step + 1

\* C10 witness: simulate(2) has returned and the three entries of history
\* differ from one another.
C10_Witness ==
    /\ spc = "done"
    /\ n_step = 2
    /\ heap[history[1]] # heap[history[2]]
    /\ heap[history[2]] # heap[history[3]]
    /\ heap[history[1]] # heap[history[3]]

\* step() written as a function agrees with step() run statement by statement.
StepGridAgrees == StepReturned => SandGrid = StepGrid(before, n, sand_drop)

\* C5: when both engines, built with the same n and the same random_state,
\* have run simulate(k), their histories are equal element by element, in
\* whatever order the two constructors and the two simulate calls ran.
C5_SameHistories ==
    (eng[1].phase = "done" /\ eng[2].phase = "done") => eng[1].history = eng[2].history

----------------------------------------------------------------------------
(* Properties of the avalanches of step() *)

\* C16: an avalanche at a site holding 4 or more takes exactly 4 from it, adds
\* exactly 1 to each site orthogonally next to it inside the lattice, and
\* leaves every other site as it was: no diagonal, no wrap-around.
C16_ToppleMovesFourGrains ==
    [][(spc = "for" /\ pos < Len(ind_store) /\ pos' = pos + 1
           /\ SandGrid[ind_store[pos + 1]] >= 4)
          => \A c \in Cells(n) :
                SandGrid'[c] = IF c = ind_store[pos + 1] THEN SandGrid[c] - 4
                               ELSE IF Adjacent(c, ind_store[pos + 1]) THEN SandGrid[c] + 1
                               ELSE SandGrid[c]]_vars

\* The example: 3 x 3, zeros around a centre that the dropped grain brings to
\* 4; step() has returned centre 0, the four orthogonal neighbours 1 and the
\* corners 0.
C16_Witness ==
    /\ n = 3
    /\ StepReturned
    /\ before = [c \in Cells(3) |-> IF c = <<1, 1>> THEN 3 ELSE 0]
    /\ sand_drop = <<1, 1>>
    /\ topples = <<<<1, 1>>>>
    /\ SandGrid = [c \in Cells(3) |-> IF Adjacent(c, <<1, 1>>) THEN 1 ELSE 0]

\* The entries of ind_store for site x that no `for` iteration has taken yet.
Unexamined(x) ==
    LET from == IF spc = "for" THEN (IF passes <= 1 \/ pos > start_len THEN pos ELSE start_len)
                ELSE IF passes = 0 THEN 0
                ELSE Len(ind_store)
    IN Cardinality({k \in from + 1 .. Len(ind_store) : ind_store[k] = x})

\* C18: while step() relaxes, every site holds at least 0 and at most 3 plus
\* the number of worklist entries for it that are still unexamined.
C18_OverfullOnlyWhileListed ==
    spc \in {"while", "for"} =>
        \A x \in Cells(n) :
            /\ SandGrid[x] >= 0
            /\ SandGrid[x] <= 3 \/ SandGrid[x] <= 3 + Unexamined(x)

\* A site holds 5 in the middle of a pass, with two entries waiting for it.
C18_Witness ==
    /\ spc = "for"
    /\ pos >= 1
    /\ \E x \in Cells(n) : SandGrid[x] = 5 /\ Unexamined(x) = 2

\* C19: all avalanches of a step happen in the first `for` pass; the grid is
\* stable whenever a pass ends; a later pass takes only sites holding less
\* than 4 and changes nothing; there are at most two passes.
C19_AllTopplesInFirstPass ==
    [][/\ passes' <= 2
       /\ (spc = "for" /\ spc' = "while") => \A c \in Cells(n) : SandGrid'[c] <= 3
       /\ (spc = "for" /\ passes >= 2)
             => /\ SandGrid' = SandGrid
                /\ topples' = topples
                /\ pos < Len(ind_store) => SandGrid[ind_store[pos + 1]] < 4
       /\ (spc = "for" /\ spc' = "while" /\ passes >= 2) => ind_store' = <<>>]_vars

\* The second pass of a step with several avalanches has ended.
C19_Witness ==
    /\ spc = "while"
    /\ passes = 2
    /\ ind_store = <<>>
    /\ Len(topples) >= 3

----------------------------------------------------------------------------
(* Properties of the recursion of percolate() *)

\* C13: within one percolate() call _flow_recursive is invoked at most once
\* for each site, the top-row sites filled sideways included.
C13_AtMostOneCallPerCell == ppc # "none" => \A c \in Cells(n) : visits[c] <= 1

\* C14: a site outside the top row that changes from 1 to 2 is written by the
\* _flow_recursive call of the site above it, left of it or right of it, never
\* by the call of the site below it.
C14_FilledFromAboveOrBeside ==
    [][\A c \in Cells(n) :
          (c[1] >= 1 /\ GridFilled[c] = 1 /\ GridFilled'[c] = 2)
             => /\ stack # <<>>
                /\ <<stack[Len(stack)].i, stack[Len(stack)].j>> \in
                      {<<c[1] - 1, c[2]>>, <<c[1], c[2] - 1>>, <<c[1], c[2] + 1>>}]_vars

\* No site holding 1 in grid_filled is next to a site holding 2.
NoOpenNextToFilled ==
    \A a \in Cells(n), b \in Cells(n) :
        Adjacent(a, b) => ~(GridFilled[a] = 1 /\ GridFilled[b] = 2)

OpenCells == {c \in Cells(n) : grid0[c] = 1}

\* How many open sites a site is next to.
Degree(c) == Cardinality({d \in OpenCells : Adjacent(c, d)})

\* The open sites form one path without branches that has end e.
PathWithEnd(e) ==
    /\ e \in OpenCells
    /\ Closure(grid0, n, {e}) = OpenCells
    /\ \A c \in OpenCells : Degree(c) <= 2
    /\ \/ OpenCells = {e}
       \/ Degree(e) = 1 /\ Cardinality({c \in OpenCells : Degree(c) = 1}) = 2

\* The first site percolate() pours water on: the leftmost open site of the
\* top row.
FirstSeed(e) == e \in OpenCells /\ e[1] = 0 /\ \A j \in 0 .. e[2] - 1 : grid0[<<0, j>>] # 1

\* The first percolate() call has returned and no other has begun.
FirstCallReturned == ppc = "ready" /\ Len(returned) = 1

\* C20 as stated: at most as many _flow_recursive calls are active as there are
\* open sites, and on every grid whose open sites form one path without
\* branches from a top-row site the deepest nesting equals that number.
C20_DepthReachedOnEveryPath ==
    /\ Len(stack) <= Cardinality(OpenCells)
    /\ (FirstCallReturned /\ \E e \in OpenCells : e[1] = 0 /\ PathWithEnd(e))
          => maxdepth = Cardinality(OpenCells)

\* C20, amended: at most as many _flow_recursive calls are active as there are
\* open sites, and the deepest nesting equals that number on every grid whose
\* open sites form one path without branches from the first site percolate()
\* pours water on.
C20_DepthWithinOpenCells ==
    /\ Len(stack) <= Cardinality(OpenCells)
    /\ maxdepth <= Cardinality(OpenCells)
    /\ (FirstCallReturned /\ \E e \in OpenCells : FirstSeed(e) /\ PathWithEnd(e))
          => maxdepth = Cardinality(OpenCells)

\* A path of 7 open sites that leaves the top row and comes back to it;
\* percolate() has returned after nesting 7 calls.
C20_Witness ==
    /\ n = 3
    /\ FirstCallReturned
    /\ \E e \in OpenCells : FirstSeed(e) /\ PathWithEnd(e)
    /\ Cardinality(OpenCells) = 7
    /\ maxdepth = 7

----------------------------------------------------------------------------
(* Properties of the constructors *)

\* C11: a PercolationSimulation constructor given a grid that holds a value
\* other than 0 and 1 raises; no engine exists and percolate() never runs on it.
C11_InvalidGridRejected ==
    (call.op = "PercolationSimulation(grid)" /\ ~(Unique(call.args[1]) \subseteq {0, 1}))
       => (outcome = "raised" /\ ppc = "none")

\* C12: a constructor of either engine given n <= 0, and the percolation
\* constructor given p outside [0, 1], raises; no engine exists.
C12_InvalidParameterRejected ==
    (\/ call.op \in {"PercolationSimulation(n, p)", "AbelianSandpile(n)"} /\ call.args[1] <= 0
     \/ call.op = "PercolationSimulation(n, p)" /\ (call.args[2] < 0 \/ call.args[2] > 10))
       => (outcome = "raised" /\ ppc = "none" /\ spc = "none")

----------------------------------------------------------------------------
(* Properties of check_difference *)

\* C15: check_difference on two arrays of different shapes raises and returns
\* no count, whatever the two shapes are.
C15_ShapeMismatchRaises ==
    (call.op = "check_difference" /\ call.args[1].shape # call.args[2].shape)
       => outcome = "raised"


============================================================================
